---- MODULE Spec2Model ----
(***************************************************************************)
(* Model of MMM-Facial-Recognition.py: the camera acquisition layer, the   *)
(* presence / sleep state machine of main() and the status publication.    *)
(*                                                                         *)
(* Time.  The program reads time.time() once per loop iteration            *)
(* (current_time) and only ever uses the differences                       *)
(*   current_time - last_face_seen        (time_since_face)                *)
(*   current_time - last_recognition_time                                  *)
(*   current_time - last_wake_time                                         *)
(* in comparisons against fixed thresholds.  The model therefore keeps     *)
(* these three differences, measured at the current_time of the running    *)
(* iteration, each saturated one unit above the largest threshold it is    *)
(* compared with.  A stored timestamp of 0 (the Unix epoch) is a           *)
(* saturated difference.  The clock counts units of 1/Second seconds.      *)
(***************************************************************************)
EXTENDS Integers, Sequences, FiniteSets, TLC

\* ------------------------------------------------------------------ constants

\* Clock units per second.  On the whole-second clock the 0.5 s interval of
\* the sleeping loop is 0 units plus the jitter of the iteration.
Second == 1

FACE_DETECTION_INTERVAL == 1 * Second
SLEEP_DETECTION_INTERVAL == Second \div 2
SLEEP_TIMEOUT == 300 * Second
RECOGNITION_HOLD_TIME == 15 * Second
WAKE_CONFIRMATION_TIME == 5 * Second
CAMERA_FAILURE_THRESHOLD == 5
\* time.sleep(1) of reinitialize_camera and time.sleep(10) of the back-off
REINIT_SETTLE == 1 * Second
BACKOFF == 10 * Second

\* ------------------------------------------------------------------ bounds

\* Extra clock units an iteration may take beyond its sleeps (capture
\* retries, recognition, scheduling).
MaxJitter == 1
\* Faces located in one frame.
MaxFaces == 2
\* Iterations counted by the tick counter before it saturates.
MaxTicks == 21
\* Largest retries argument of a capture_frame call examined on its own.
MaxRetries == 3

\* ------------------------------------------------------------------ values

None == "None"
Guest == "Guest"
\* known_faces, in the iteration order of the dict (insertion order).  The
\* names are the stems of the *-id.png files: any string, "Guest" included.
ProfileOrder == <<"Tony", "Sarah", "Guest">>
Profiles == {ProfileOrder[i] : i \in 1..Len(ProfileOrder)}
Users == Profiles \cup {Guest, None}

Backends == <<"picamera2", "picamera", "opencv">>
Kinds == {Backends[i] : i \in 1..Len(Backends)}

Min(a, b) == IF a < b THEN a ELSE b

\* Saturation points of the three differences.
FaceCap == SLEEP_TIMEOUT + 1
RecognitionCap == RECOGNITION_HOLD_TIME + 1
WakeCap == WAKE_CONFIRMATION_TIME + 1

VARIABLES
    pc,                   \* position of the process in main()
    exc,                  \* exception in flight when the finally block runs
    exit_code,            \* process exit code, -1 while running
    ret,                  \* where the running write_status call returns to
    camera,               \* None or "handle"
    camera_type,          \* None or a backend kind
    consecutive_failures,
    is_sleeping,
    current_user,
    since_face,           \* current_time - last_face_seen
    since_recognition,    \* current_time - last_recognition_time
    since_wake,           \* current_time - last_wake_time
    elapsed,              \* time slept inside this iteration (reinit, back-off)
    frame,                \* result of capture_frame in this iteration
    recognized_name,      \* result of recognize_face in this iteration
    face_detected,
    pending,              \* argument of the running / last write_status call
    status_file,          \* content of STATUS_FILE on disk
    teardown_kind,        \* backend kind of the last teardown
    teardown_attempted,   \* teardown steps attempted by the last teardown
    teardown_raised,      \* teardown steps that raised in the last teardown
    \* history variables, read by the properties only
    was_sleeping,         \* is_sleeping at the start of this iteration
    wrote,                \* write_status was called in this iteration
    reinit_calls,         \* calls of reinitialize_camera in this iteration
    fail_streak,          \* failed iterations since the last frame / reinit
    ticks,                \* iterations started before the first detected face,
                          \* saturating at MaxTicks and saturated from that face on
    face_ever,            \* some iteration so far detected a face
    idle,                 \* time since the start of the last iteration that
                          \* detected a face (since Init if none), saturating
    reader_saw,           \* what the consumer's last read of the file saw
    matched,              \* recognized_name of this iteration is the name of a
                          \* profile that compare_faces matched
    init_avail,           \* outcomes of the backends in the initialize_camera
                          \* call of startup, kept until the first iteration
    handle_overlap,       \* in the initialize_camera calls of startup / of this
                          \* iteration a handle was created while another was open
    init_calls,           \* calls of initialize_camera in this iteration
    camera_open,          \* the handle that camera refers to is open
    teardown_open,        \* that handle was open when the last teardown started
    read_outcomes,        \* capture_frame on its own: outcome of each read
    capture_log           \* capture_frame on its own: retries, attempts, pauses

vars == <<pc, exc, exit_code, ret, camera, camera_type, consecutive_failures,
          is_sleeping, current_user, since_face, since_recognition, since_wake,
          elapsed, frame, recognized_name, face_detected, pending, status_file,
          teardown_kind, teardown_attempted, teardown_raised,
          was_sleeping, wrote, reinit_calls, fail_streak, ticks,
          face_ever, idle, reader_saw, matched, init_avail, handle_overlap,
          init_calls, camera_open, teardown_open, read_outcomes, capture_log>>

cameraVars == <<camera, camera_type>>
presenceVars == <<is_sleeping, current_user, since_face, since_recognition, since_wake>>
teardownVars == <<teardown_kind, teardown_attempted, teardown_raised, teardown_open>>
tickHist == <<was_sleeping, wrote, reinit_calls, matched>>
runHist == <<fail_streak, ticks, face_ever, idle>>
initHist == <<init_avail, handle_overlap, init_calls, camera_open>>
\* What no step of main() touches: the consumer's view, and the variables of
\* the capture_frame call examined on its own.
envVars == <<reader_saw, read_outcomes, capture_log>>

\* ------------------------------------------------------- status publication

\* build_status: the published fields of the snapshot.  The diagnostic
\* fields (timestamp, timeSinceFace, profileCount, profileNames,
\* sleepTimeoutSecs, cameraType) are not modelled.
build_status(user, is_known, sleeping) ==
    [state |-> "complete", user |-> user, isKnown |-> is_known, sleeping |-> sleeping]

\* The file before the first write, after open(status_file, 'w') truncated
\* it, and after a serialization that stopped half way.
FileAbsent == [state |-> "absent", user |-> None, isKnown |-> FALSE, sleeping |-> FALSE]
FileEmpty == [state |-> "empty", user |-> None, isKnown |-> FALSE, sleeping |-> FALSE]
FilePartial == [state |-> "partial", user |-> None, isKnown |-> FALSE, sleeping |-> FALSE]

\* ------------------------------------------------------------- camera layer

\* initialize_camera: avail[k] is "ok", "absent" (ImportError), "raise" (the
\* constructor raises, or VideoCapture is not opened) or "late" (the handle
\* is created and a later step of the initialization raises).
\* The first backend, in the order of Backends, that is "ok" is returned.
RECURSIVE TryBackends(_, _)
TryBackends(i, avail) ==
    IF i > Len(Backends) THEN <<None, None>>
    ELSE IF avail[Backends[i]] = "ok" THEN <<"handle", Backends[i]>>
    ELSE TryBackends(i + 1, avail)

initialize_camera_opencv_first(avail) ==
    IF avail["opencv"] = "ok" THEN <<"handle", "opencv">> ELSE TryBackends(1, avail)
initialize_camera(avail) == TryBackends(1, avail)

\* No capture_frame call is examined on its own.
NoCapture == [retries |-> 0, attempts |-> 0, pauses |-> 0]

Availabilities == [Kinds -> {"ok", "absent", "raise", "late"}]
NoAvail == [k \in Kinds |-> "untried"]

\* The handles created during the call: by the backend returned and by
\* every backend tried before it that failed after creating its handle.  No
\* except clause closes such a handle, and the local variable camera refers
\* to it until the next backend has created its own.
RECURSIVE CreatedFrom(_, _)
CreatedFrom(i, avail) ==
    IF i > Len(Backends) THEN 0
    ELSE IF avail[Backends[i]] = "ok" THEN 1
    ELSE (IF avail[Backends[i]] = "late" THEN 1 ELSE 0) + CreatedFrom(i + 1, avail)

HandlesCreated(avail) == CreatedFrom(1, avail)

\* A call of initialize_camera as the actions see it: what it returns, and
\* whether it created a handle while another one was open (still_open: the
\* caller's old handle is open during the call).
InitCall(avail, still_open) ==
    [result |-> initialize_camera(avail),
     overlap |-> HandlesCreated(avail) + (IF still_open THEN 1 ELSE 0) >= 2]

\* capture_frame: outcomes[i] is the outcome of read attempt i: "frame",
\* "nodata" (the read returned nothing usable) or "raise".  The result
\* carries the frame returned, the number of reads made and the number of
\* time.sleep(0.1) pauses taken: the pause is in the except clause only, on
\* an attempt that is not the last.
RECURSIVE AttemptOneFewer(_, _, _)
AttemptOneFewer(attempt, outcomes, retries) ==
    IF attempt >= retries THEN [frame |-> None, attempts |-> 0, pauses |-> 0]
    ELSE IF outcomes[attempt + 1] = "frame"
         THEN [frame |-> "frame", attempts |-> 1, pauses |-> 0]
    ELSE LET rest == AttemptOneFewer(attempt + 1, outcomes, retries)
         IN  [frame |-> rest.frame,
              attempts |-> 1 + rest.attempts,
              pauses |-> (IF outcomes[attempt + 1] = "raise" /\ attempt # retries
                          THEN 1 ELSE 0) + rest.pauses]
RECURSIVE Attempt(_, _, _)
Attempt(attempt, outcomes, retries) ==
    IF attempt > retries THEN [frame |-> None, attempts |-> 0, pauses |-> 0]
    ELSE IF outcomes[attempt + 1] = "frame"
         THEN [frame |-> "frame", attempts |-> 1, pauses |-> 0]
    ELSE LET rest == Attempt(attempt + 1, outcomes, retries)
         IN  [frame |-> rest.frame,
              attempts |-> 1 + rest.attempts,
              pauses |-> (IF outcomes[attempt + 1] = "raise" /\ attempt # retries
                          THEN 1 ELSE 0) + rest.pauses]

capture_trace(outcomes, retries) == Attempt(0, outcomes, retries)

capture_frame(outcomes, retries) == capture_trace(outcomes, retries).frame

\* The outcomes a read of the backend can have: camera.capture of the
\* legacy picamera either fills the buffer or raises.
ReadOutcomes(kind) ==
    IF kind = "picamera" THEN {"frame", "raise"} ELSE {"frame", "nodata", "raise"}

Retries(sleeping) == IF sleeping THEN 3 ELSE 2

\* The outcome sequences of n attempts of a camera that may fail (flaky) and
\* of one that delivers a frame at every attempt.
CameraOutcomes(kind, n, flaky) ==
    IF flaky THEN [1..n -> ReadOutcomes(kind)] ELSE [1..n -> {"frame"}]

\* The teardown steps of a backend kind, in the order the code calls them.
TeardownSteps(kind) ==
    CASE kind = "picamera2" -> <<"stop", "close">>
      [] kind = "picamera" -> <<"close">>
      [] kind = "opencv" -> <<"release">>
      [] OTHER -> <<>>

\* Runs the steps from index i.  raises is the set of steps that raise when
\* called.  guarded: each step sits in its own try/except Exception.
\* Returns the steps attempted, those that raised, and whether an exception
\* left the sequence.
RECURSIVE RunSteps(_, _, _, _)
RunSteps(steps, i, raises, guarded) ==
    IF i > Len(steps)
    THEN [attempted |-> {}, raised |-> {}, propagated |-> FALSE]
    ELSE IF steps[i] \in raises /\ ~guarded
         THEN [attempted |-> {steps[i]}, raised |-> {steps[i]}, propagated |-> TRUE]
    ELSE LET rest == RunSteps(steps, i + 1, raises, guarded)
         IN  [attempted |-> {steps[i]} \cup rest.attempted,
              raised |-> ({steps[i]} \cap raises) \cup rest.raised,
              propagated |-> rest.propagated]

\* The teardown of reinitialize_camera: every step in its own try/except.
ReinitTeardownUnguarded(kind, raises) == RunSteps(TeardownSteps(kind), 1, raises, FALSE)
ReinitTeardown(kind, raises) == RunSteps(TeardownSteps(kind), 1, raises, TRUE)

\* The cleanup of main's finally block: the steps are called bare.
FinallyCleanup(kind, raises) == RunSteps(TeardownSteps(kind), 1, raises, FALSE)

StepSet(kind) == {TeardownSteps(kind)[i] : i \in 1..Len(TeardownSteps(kind))}

\* The handle is released by the last step of its kind (close, release),
\* when that step was called and returned.
Released(kind, t) ==
    /\ TeardownSteps(kind) # <<>>
    /\ TeardownSteps(kind)[Len(TeardownSteps(kind))] \in t.attempted \ t.raised

\* --------------------------------------------------------------- recognition

\* recognize_face: faces[i] is the set of profiles that compare_faces
\* matches with located face i.  Returns <<recognized_name, face_detected>>.
FirstProfile(matching) ==
    LET i == CHOOSE j \in 1..Len(ProfileOrder) :
                 /\ ProfileOrder[j] \in matching
                 /\ \A k \in 1..(j - 1) : ProfileOrder[k] \notin matching
    IN  ProfileOrder[i]

RECURSIVE FirstMatch(_, _)
FirstMatch(i, faces) ==
    IF i > Len(faces) THEN <<Guest, TRUE>>
    ELSE IF faces[i] # {} THEN <<FirstProfile(faces[i]), TRUE>>
    ELSE FirstMatch(i + 1, faces)

recognize_face_GuestDetected(f, faces) ==
    IF f = None THEN <<Guest, TRUE>>
    ELSE IF Len(faces) = 0 THEN <<None, FALSE>>
    ELSE FirstMatch(1, faces)
recognize_face(f, faces) ==
    IF f = None THEN <<Guest, FALSE>>
    ELSE IF Len(faces) = 0 THEN <<None, FALSE>>
    ELSE FirstMatch(1, faces)

\* The name returned is that of a profile matched by compare_faces (and not
\* the "Guest" of line 183 or line 205).
matched_profile(f, faces) ==
    /\ f # None
    /\ \E i \in 1..Len(faces) : faces[i] # {}

\* recognize_face as the loop sees it: the tuple returned, and the above.
Observe(f, faces) == [result |-> recognize_face(f, faces), matched |-> matched_profile(f, faces)]

FaceLists == UNION {[1..n -> SUBSET Profiles] : n \in 0..MaxFaces}

\* What capture_frame returns.
Frames == {None, "frame"}

\* For each frame, what recognize_face can make of it.
Observations(Faces) == [f \in Frames |-> {Observe(f, faces) : faces \in Faces}]
FaceObservations == Observations(FaceLists)

\* ------------------------------------------------------ presence state machine

Advance(age, d, cap) == Min(age + d, cap)

\* line 332
SleepDueStrict(time_since_face, sleeping) == time_since_face > SLEEP_TIMEOUT /\ ~sleeping
SleepDue(time_since_face, sleeping) == time_since_face >= SLEEP_TIMEOUT /\ ~sleeping

\* line 307
InWakeWindowNever(sw) == FALSE
InWakeWindow(sw) == sw < WAKE_CONFIRMATION_TIME

\* line 319
HoldElapsedInclusive(sr) == sr >= RECOGNITION_HOLD_TIME
HoldElapsed(sr) == sr > RECOGNITION_HOLD_TIME

is_known(name) == name # Guest

\* The presence state as a record, and the outcome of one update of it:
\* the new state, whether write_status is called, and with which snapshot.
Presence(sl, cu, sf, sr, sw) ==
    [is_sleeping |-> sl, current_user |-> cu, since_face |-> sf,
     since_recognition |-> sr, since_wake |-> sw]

Outcome(p, write, snap) == [p |-> p, write |-> write, snap |-> snap]

\* lines 293-303: wake up.
WakeDeferred(p, name) ==
    Outcome(Presence(FALSE, name, 0, 0, 0), FALSE, FileAbsent)
Wake(p, name) ==
    Outcome(Presence(FALSE, name, 0, 0, 0), TRUE,
            build_status(name, is_known(name), FALSE))

\* lines 307-315: inside the wake confirmation window.
Confirm(p, name) ==
    Outcome(Presence(FALSE,
                     name,
                     0,
                     IF name # p.current_user THEN 0 ELSE p.since_recognition,
                     p.since_wake),
            TRUE, build_status(name, is_known(name), FALSE))

\* lines 318-328: normal operation.
NormalSilent(p, name) ==
    IF name # p.current_user
    THEN Outcome(Presence(FALSE, name, 0, 0, p.since_wake), FALSE, FileAbsent)
    ELSE IF HoldElapsed(p.since_recognition)
    THEN Outcome(Presence(FALSE, name, 0, 0, p.since_wake),
                 TRUE, build_status(name, is_known(name), FALSE))
    ELSE Outcome(Presence(FALSE, p.current_user, 0, p.since_recognition, p.since_wake),
                 FALSE, FileAbsent)
Normal(p, name) ==
    IF name # p.current_user \/ HoldElapsed(p.since_recognition)
    THEN Outcome(Presence(FALSE, name, 0, 0, p.since_wake),
                 TRUE, build_status(name, is_known(name), FALSE))
    ELSE Outcome(Presence(FALSE, p.current_user, 0, p.since_recognition, p.since_wake),
                 FALSE, FileAbsent)

\* lines 288-328
FaceBranch(p, name) ==
    IF p.is_sleeping THEN Wake(p, name)
    ELSE IF InWakeWindow(p.since_wake) THEN Confirm(p, name)
    ELSE Normal(p, name)

\* lines 330-354
NoFaceBranch(p) ==
    LET q == IF SleepDue(p.since_face, p.is_sleeping)
             THEN [p EXCEPT !.is_sleeping = TRUE, !.current_user = None]
             ELSE p
    IN  IF q.is_sleeping
        THEN Outcome(q, TRUE, build_status(None, FALSE, TRUE))
        ELSE Outcome(q, TRUE,
                     build_status(IF q.current_user = None THEN Guest ELSE q.current_user,
                                  q.current_user # None /\ q.current_user # Guest,
                                  FALSE))

\* lines 288-354: one update of the presence state by an observation.
Update(p, name, detected) ==
    IF detected THEN FaceBranch(p, name) ELSE NoFaceBranch(p)

\* -------------------------------------------------------------------- actions

Init ==
    /\ pc = "start"
    /\ exc = "none"
    /\ exit_code = -1
    /\ ret = "loop"
    /\ camera = None
    /\ camera_type = None
    /\ consecutive_failures = 0
    /\ is_sleeping = FALSE
    /\ current_user = None
    /\ since_face = 0
    /\ since_recognition = RecognitionCap
    /\ since_wake = WakeCap
    /\ elapsed = 0
    /\ frame = None
    /\ recognized_name = None
    /\ face_detected = FALSE
    /\ pending = FileAbsent
    /\ status_file = FileAbsent
    /\ teardown_kind = None
    /\ teardown_attempted = {}
    /\ teardown_raised = {}
    /\ was_sleeping = FALSE
    /\ wrote = FALSE
    /\ reinit_calls = 0
    /\ fail_streak = 0
    /\ ticks = 0
    /\ face_ever = FALSE
    /\ idle = 0
    /\ reader_saw = "absent"
    /\ matched = FALSE
    /\ init_avail = NoAvail
    /\ handle_overlap = FALSE
    /\ init_calls = 0
    /\ camera_open = FALSE
    /\ teardown_open = FALSE
    /\ read_outcomes = <<>>
    /\ capture_log = NoCapture

\* lines 360-371 and the end of the process: exception e leaves the try
\* block with camera_type = kind; the finally block runs its cleanup; the
\* process ends with the exception in flight or with the one a teardown
\* step raised.  The memory of the process is gone with it: its variables
\* other than the camera's are left at their initial values.  The cleanup
\* calls the steps of kind on the handle whether it is open or was released
\* before; with kind None it calls nothing.
Exit(e, kind) ==
    /\ pc' = "exited"
    /\ exc' = e
    /\ \E t \in {FinallyCleanup(kind, raises) : raises \in SUBSET StepSet(kind)} :
             /\ teardown_kind' = kind
             /\ teardown_attempted' = t.attempted
             /\ teardown_raised' = t.raised
             /\ teardown_open' = (kind # None /\ camera_open)
             /\ camera_open' = (kind # None /\ camera_open /\ ~Released(kind, t))
             /\ exit_code' = IF t.propagated \/ e # "KeyboardInterrupt" THEN 1 ELSE 0
    /\ ret' = "loop"
    /\ consecutive_failures' = 0
    /\ is_sleeping' = FALSE
    /\ current_user' = None
    /\ since_face' = 0
    /\ since_recognition' = RecognitionCap
    /\ since_wake' = WakeCap
    /\ elapsed' = 0
    /\ frame' = None
    /\ recognized_name' = None
    /\ face_detected' = FALSE
    /\ pending' = FileAbsent
    /\ was_sleeping' = FALSE
    /\ wrote' = FALSE
    /\ reinit_calls' = 0
    /\ fail_streak' = 0
    /\ ticks' = 0
    /\ face_ever' = FALSE
    /\ idle' = 0
    /\ matched' = FALSE
    /\ init_avail' = NoAvail
    /\ handle_overlap' = FALSE

\* lines 213-257: open the camera or exit(1); set the initial state; call
\* write_status with the initial "awake, Guest" snapshot.
Startup ==
    /\ pc = "start"
    /\ \E avail \in Availabilities :
         LET c == InitCall(avail, FALSE)
         IN  /\ init_avail' = avail
             /\ handle_overlap' = c.overlap
             /\ camera' = c.result[1]
             /\ camera_type' = c.result[2]
             /\ camera_open' = (c.result[1] # None)
             /\ IF c.result[1] = None
                THEN /\ pc' = "exited"
                     /\ exit_code' = 1
                     /\ exc' = "SystemExit"
                     /\ UNCHANGED pending
                ELSE /\ pc' = "write_open"
                     /\ pending' = build_status(Guest, FALSE, FALSE)
                     /\ UNCHANGED <<exit_code, exc>>
    /\ ret' = "loop"
    /\ UNCHANGED <<consecutive_failures, presenceVars, elapsed, frame,
                   recognized_name, face_detected, status_file, teardownVars,
                   tickHist, runHist, init_calls, envVars>>

\* lines 67-68: a raise inside the try of write_status is caught by the
\* except clause and logged, and write_status returns to its caller.
WriteRaisePropagates ==
    /\ Exit("Exception", camera_type)
    /\ UNCHANGED <<cameraVars, init_calls>>
WriteRaiseCaught ==
    /\ pc' = ret
    /\ UNCHANGED <<exc, exit_code, ret, cameraVars, consecutive_failures,
                   presenceVars, elapsed, frame, recognized_name,
                   face_detected, pending, teardownVars, tickHist, runHist,
                   initHist>>

\* line 65: open(status_file, 'w') truncates the file, or raises.
WriteOpen ==
    /\ pc = "write_open"
    /\ \/ /\ status_file' = FileEmpty
          /\ pc' = "write_dump"
          /\ UNCHANGED <<exc, exit_code, ret, cameraVars, consecutive_failures,
                         presenceVars, elapsed, frame, recognized_name,
                         face_detected, pending, teardownVars, tickHist, runHist,
                         initHist>>
       \/ /\ UNCHANGED status_file
          /\ WriteRaiseCaught
    /\ UNCHANGED envVars

\* lines 66-68: json.dump and the close of the with block write the record,
\* or raise and leave what was flushed so far.
WriteDump ==
    /\ pc = "write_dump"
    /\ \/ /\ status_file' = pending
          /\ pc' = ret
          /\ UNCHANGED <<exc, exit_code, ret, cameraVars, consecutive_failures,
                         presenceVars, elapsed, frame, recognized_name,
                         face_detected, pending, teardownVars, tickHist, runHist,
                         initHist>>
       \/ /\ status_file' \in {FileEmpty, FilePartial}
          /\ WriteRaiseCaught
    /\ UNCHANGED envVars

\* lines 357-358
DetectionInterval(sleeping) ==
    IF sleeping THEN SLEEP_DETECTION_INTERVAL ELSE FACE_DETECTION_INTERVAL

\* line 271: the failure counter has reached the threshold.
ThresholdExceeded(failures) == failures > CAMERA_FAILURE_THRESHOLD
ThresholdReached(failures) == failures >= CAMERA_FAILURE_THRESHOLD

\* lines 357-358 of the previous iteration, then lines 261-271 and 282-283:
\* sleep, read the clock, capture a frame and count the failure.
LoopTop(flaky) ==
    /\ pc \in {"loop", "sleep"}
    /\ \E j \in 0..MaxJitter,
          f \in {capture_frame(outcomes, Retries(is_sleeping)) :
                   outcomes \in CameraOutcomes(camera_type,
                                               Retries(is_sleeping) + 1, flaky)} :
         LET d == (IF pc = "sleep" THEN DetectionInterval(is_sleeping) ELSE 0)
                  + elapsed + j
             n == IF f = None THEN consecutive_failures + 1 ELSE 0
         IN  /\ since_face' = Advance(since_face, d, FaceCap)
             /\ idle' = Advance(idle, d, FaceCap)
             /\ since_recognition' = Advance(since_recognition, d, RecognitionCap)
             /\ since_wake' = Advance(since_wake, d, WakeCap)
             /\ frame' = f
             /\ consecutive_failures' = n
             /\ fail_streak' = IF f = None THEN fail_streak + 1 ELSE 0
             /\ pc' = IF f = None /\ ThresholdReached(n) THEN "reinit" ELSE "recognize"
    /\ elapsed' = 0
    /\ was_sleeping' = is_sleeping
    /\ wrote' = FALSE
    /\ reinit_calls' = 0
    /\ matched' = FALSE
    /\ init_avail' = NoAvail
    /\ handle_overlap' = FALSE
    /\ init_calls' = 0
    /\ ticks' = Min(ticks + 1, MaxTicks)
    /\ UNCHANGED <<exc, exit_code, ret, cameraVars, is_sleeping, current_user,
                   recognized_name, face_detected, pending, status_file,
                   teardownVars, face_ever, camera_open, envVars>>

\* lines 272-273 and 145-171: reinitialize_camera tears the old camera down
\* and waits a second.
Reinit ==
    /\ pc = "reinit"
    /\ \E t \in {ReinitTeardown(camera_type, raises) :
                   raises \in SUBSET StepSet(camera_type)} :
             IF t.propagated
             THEN /\ Exit("Exception", camera_type)
                  /\ UNCHANGED <<cameraVars, init_calls>>
             ELSE /\ teardown_kind' = camera_type
                  /\ teardown_attempted' = t.attempted
                  /\ teardown_raised' = t.raised
                  /\ teardown_open' = camera_open
                  /\ camera_open' = (camera_open /\ ~Released(camera_type, t))
                  /\ pc' = "reinit_open"
                  /\ reinit_calls' = reinit_calls + 1
                  /\ elapsed' = elapsed + REINIT_SETTLE
                  /\ UNCHANGED <<exc, exit_code, ret, cameraVars, consecutive_failures,
                                 presenceVars, frame, recognized_name, face_detected,
                                 pending, was_sleeping, wrote, matched, runHist,
                                 init_avail, handle_overlap, init_calls>>
    /\ UNCHANGED <<status_file, envVars>>

\* lines 174 and 273-275: initialize_camera, the assignment of its result
\* and the reset of the counter.
ReinitOpen ==
    /\ pc = "reinit_open"
    /\ \E c \in {InitCall(avail, camera_open) : avail \in Availabilities} :
             /\ camera' = c.result[1]
             /\ camera_type' = c.result[2]
             /\ camera_open' = (c.result[1] # None)
             /\ handle_overlap' = (handle_overlap \/ c.overlap)
             /\ pc' = IF c.result[1] = None THEN "backoff" ELSE "recognize"
    /\ init_calls' = init_calls + 1
    /\ consecutive_failures' = 0
    /\ fail_streak' = 0
    /\ teardown_kind' = None
    /\ teardown_attempted' = {}
    /\ teardown_raised' = {}
    /\ teardown_open' = FALSE
    /\ UNCHANGED <<exc, exit_code, ret, presenceVars, elapsed, frame,
                   recognized_name, face_detected, pending, status_file,
                   tickHist, ticks, face_ever, idle, init_avail, envVars>>

\* lines 276-281: wait 10 s, try initialize_camera once more, exit(1) if
\* there is still no camera.
BackoffGivesUp ==
    /\ pc = "backoff"
    /\ Exit("SystemExit", None)
    /\ UNCHANGED <<cameraVars, init_calls, status_file, envVars>>
Backoff ==
    /\ pc = "backoff"
    /\ \E c \in {InitCall(avail, camera_open) : avail \in Availabilities} :
             /\ camera' = c.result[1]
             /\ camera_type' = c.result[2]
             /\ IF c.result[1] = None
                THEN Exit("SystemExit", c.result[2])
                ELSE /\ pc' = "recognize"
                     /\ elapsed' = elapsed + BACKOFF
                     /\ camera_open' = TRUE
                     /\ handle_overlap' = (handle_overlap \/ c.overlap)
                     /\ UNCHANGED <<exc, exit_code, ret, consecutive_failures,
                                    presenceVars, frame, recognized_name,
                                    face_detected, pending, teardownVars,
                                    tickHist, runHist, init_avail>>
    /\ init_calls' = init_calls + 1
    /\ UNCHANGED <<status_file, envVars>>

\* lines 286-354 up to the call of write_status: recognize_face and the
\* update of the presence state.
Recognize(Obs) ==
    /\ pc = "recognize"
    /\ \E ob \in Obs[frame] :
         LET r == ob.result
             o == Update(Presence(is_sleeping, current_user, since_face,
                                  since_recognition, since_wake), r[1], r[2])
         IN  /\ recognized_name' = r[1]
             /\ matched' = ob.matched
             /\ face_detected' = r[2]
             /\ is_sleeping' = o.p.is_sleeping
             /\ current_user' = o.p.current_user
             /\ since_face' = o.p.since_face
             /\ since_recognition' = o.p.since_recognition
             /\ since_wake' = o.p.since_wake
             /\ wrote' = o.write
             /\ pending' = IF o.write THEN o.snap ELSE pending
             /\ pc' = IF o.write THEN "write_open" ELSE "sleep"
             /\ face_ever' = (face_ever \/ r[2])
             /\ ticks' = IF r[2] THEN MaxTicks ELSE ticks
             /\ idle' = IF r[2] THEN 0 ELSE idle
    /\ ret' = "sleep"
    /\ UNCHANGED <<exc, exit_code, cameraVars, consecutive_failures, elapsed,
                   frame, status_file, teardownVars, was_sleeping,
                   reinit_calls, fail_streak, initHist, envVars>>

\* lines 186-201: a call of the recognition library raises; nothing in
\* recognize_face or in the loop catches it.
RecognizeRaises ==
    /\ pc = "recognize"
    /\ frame # None
    /\ Exit("Exception", camera_type)
    /\ UNCHANGED <<cameraVars, status_file, init_calls, envVars>>

\* The positions inside the try block of main (lines 259-358).
InTry ==
    \/ pc \in {"loop", "sleep", "recognize", "reinit", "reinit_open", "backoff"}
    \/ pc \in {"write_open", "write_dump"} /\ ret = "sleep"

\* line 360: an external interrupt raises KeyboardInterrupt in the loop.
\* An interrupt inside the with block closes the file as it is.
Interrupt ==
    /\ InTry
    /\ Exit("KeyboardInterrupt", camera_type)
    /\ IF pc = "write_dump"
       THEN status_file' \in {FileEmpty, FilePartial}
       ELSE UNCHANGED status_file
    /\ UNCHANGED <<cameraVars, init_calls, envVars>>

\* The consumer (node_helper) reads the status file, at any moment.
Reader ==
    /\ reader_saw' = status_file.state
    /\ reader_saw' # reader_saw
    /\ UNCHANGED <<pc, exc, exit_code, ret, cameraVars, consecutive_failures,
                   presenceVars, elapsed, frame, recognized_name, face_detected,
                   pending, status_file, teardownVars, tickHist, runHist,
                   initHist, read_outcomes, capture_log>>

\* The program, under every behaviour of the camera, of the recognition
\* library, of the file system and of the clock, and the external interrupt.
Next ==
    \/ Startup
    \/ WriteOpen
    \/ WriteDump
    \/ LoopTop(TRUE)
    \/ Reinit
    \/ ReinitOpen
    \/ Backoff
    \/ Recognize(FaceObservations)
    \/ RecognizeRaises
    \/ Interrupt

Spec == Init /\ [][Next]_vars

\* The frames with at most one located face.
SingleFaceLists == {faces \in FaceLists : Len(faces) <= 1}
SingleFaceObservations == Observations(SingleFaceLists)

\* The program with a camera that delivers every frame in front of at most
\* one face, never interrupted, and the consumer reading the status file.
NextReader ==
    \/ Startup
    \/ WriteOpen
    \/ WriteDump
    \/ LoopTop(FALSE)
    \/ Recognize(SingleFaceObservations)
    \/ Reader

SpecReader == Init /\ [][NextReader]_vars

\* capture_frame(camera, camera_type, retries) on its own: a call with an
\* open camera of any kind, any retries argument up to MaxRetries and any
\* outcome of each of its reads.
InitCapture ==
    /\ pc = "capture"
    /\ exc = "none"
    /\ exit_code = -1
    /\ ret = "loop"
    /\ camera = "handle"
    /\ camera_type \in Kinds
    /\ camera_open = TRUE
    /\ consecutive_failures = 0
    /\ is_sleeping = FALSE
    /\ current_user = None
    /\ since_face = 0
    /\ since_recognition = RecognitionCap
    /\ since_wake = WakeCap
    /\ elapsed = 0
    /\ frame = None
    /\ recognized_name = None
    /\ face_detected = FALSE
    /\ pending = FileAbsent
    /\ status_file = FileAbsent
    /\ teardown_kind = None
    /\ teardown_attempted = {}
    /\ teardown_raised = {}
    /\ teardown_open = FALSE
    /\ was_sleeping = FALSE
    /\ wrote = FALSE
    /\ reinit_calls = 0
    /\ fail_streak = 0
    /\ ticks = 0
    /\ face_ever = FALSE
    /\ idle = 0
    /\ reader_saw = "absent"
    /\ matched = FALSE
    /\ init_avail = NoAvail
    /\ handle_overlap = FALSE
    /\ init_calls = 0
    /\ \E retries \in 0..MaxRetries :
         /\ capture_log = [retries |-> retries, attempts |-> 0, pauses |-> 0]
         /\ read_outcomes \in CameraOutcomes(camera_type, retries + 1, TRUE)

\* lines 115-142: the call runs to its return.
CaptureCall ==
    /\ pc = "capture"
    /\ LET t == capture_trace(read_outcomes, capture_log.retries)
       IN  /\ frame' = t.frame
           /\ capture_log' = [capture_log EXCEPT !.attempts = t.attempts,
                                                   !.pauses = t.pauses]
    /\ pc' = "captured"
    /\ UNCHANGED <<exc, exit_code, ret, cameraVars, consecutive_failures,
                   presenceVars, elapsed, recognized_name, face_detected,
                   pending, status_file, teardownVars, tickHist, runHist,
                   initHist, reader_saw, read_outcomes>>

NextCapture == CaptureCall

SpecCapture == InitCapture /\ [][NextCapture]_vars

\* ----------------------------------------------------------------- properties

\* A step that runs recognize_face and the update of the presence state to
\* the end: the iteration has an observation, <<recognized_name', face_detected'>>.
ObservationStep == pc = "recognize" /\ pc' \in {"write_open", "sleep"}

\* A state after the update of an iteration and before the next iteration.
AfterUpdate == ret = "sleep" /\ pc \in {"write_open", "write_dump", "sleep"}

\* C1: an iteration that starts asleep and observes a face (known or Guest)
\* ends awake, and calls write_status in that same iteration with sleeping =
\* false: the wake is not deferred.
C1_WakeOnSameTick ==
    [][(ObservationStep /\ is_sleeping /\ face_detected')
        => /\ ~is_sleeping'
           /\ wrote'
           /\ pc' = "write_open"
           /\ pending'.state = "complete"
           /\ pending'.sleeping = FALSE]_vars

C1_Witness ==
    /\ pc = "sleep"
    /\ was_sleeping
    /\ face_detected
    /\ recognized_name = Guest
    /\ ~is_sleeping
    /\ wrote
    /\ status_file = build_status(Guest, FALSE, FALSE)

\* C2: is_sleeping changes from false to true in an iteration exactly when
\* the iteration observes no face and, at its start, at least SLEEP_TIMEOUT
\* has passed since the start of the last iteration that detected a face
\* (since startup if none did); current_user is None after that iteration.
\* With no face from startup and every iteration on the 1 s cadence, the
\* state is awake for the first MaxTicks - 1 iterations, and asleep after the
\* first iteration that starts SLEEP_TIMEOUT or more after startup.
C2_SleepExactlyAtTimeout ==
    /\ [][(ObservationStep /\ ~is_sleeping)
           => /\ is_sleeping' <=> (~face_detected' /\ idle >= SLEEP_TIMEOUT)
              /\ is_sleeping' => current_user' = None]_vars
    /\ []((~face_ever /\ ticks \in 1..(MaxTicks - 1)
             /\ idle = (ticks - 1) * FACE_DETECTION_INTERVAL) => ~is_sleeping)
    /\ []((~face_ever /\ AfterUpdate /\ idle >= SLEEP_TIMEOUT) => is_sleeping)

C2_Witness ==
    /\ pc = "sleep"
    /\ ~was_sleeping
    /\ is_sleeping
    /\ current_user = None
    /\ face_ever
    /\ idle = SLEEP_TIMEOUT

\* C3: awake with current_user = "Tony", outside the wake confirmation
\* window and less than RECOGNITION_HOLD_TIME after the last identity change,
\* an observation of an unrecognized (Guest) face leaves current_user and the
\* published user "Tony".
C3_GuestFrameKeepsUser ==
    [][(/\ ObservationStep
        /\ ~is_sleeping
        /\ current_user = "Tony"
        /\ since_wake >= WAKE_CONFIRMATION_TIME
        /\ since_recognition < RECOGNITION_HOLD_TIME
        /\ face_detected'
        /\ recognized_name' = Guest)
        => /\ current_user' = "Tony"
           /\ ~(wrote' /\ pending'.user # "Tony")]_vars

C5_PublishInWakeWindow ==
    [][(ObservationStep /\ since_wake' < WAKE_CONFIRMATION_TIME /\ ~is_sleeping')
        => /\ wrote'
           /\ pc' = "write_open"
           /\ pending'.state = "complete"]_vars

C5_Witness ==
    /\ pc = "sleep"
    /\ ~was_sleeping
    /\ face_detected
    /\ wrote
    /\ since_wake \in 1..(WAKE_CONFIRMATION_TIME - 1)
    /\ recognized_name = current_user
    /\ since_recognition = since_wake

\* A step that captures: the start of an iteration.
CaptureStep == pc \in {"loop", "sleep"} /\ pc' \in {"recognize", "reinit"}

\* C6: consecutive_failures is 0 after every capture that returns a frame;
\* reinitialize_camera is called in an iteration exactly when the iteration is
\* the CAMERA_FAILURE_THRESHOLD-th in a row whose capture failed, at most
\* once in it, and the counter is 0 after the call.
C6_ReinitAtThreshold ==
    [][/\ CaptureStep
          => /\ frame' # None => consecutive_failures' = 0
             /\ pc' = "reinit"
                  <=> (frame' = None /\ fail_streak' = CAMERA_FAILURE_THRESHOLD)
       /\ reinit_calls' <= 1
       /\ (pc = "reinit_open" /\ pc' # "exited") => consecutive_failures' = 0]_vars

C6_Witness ==
    /\ pc = "reinit_open"
    /\ reinit_calls = 1
    /\ fail_streak = CAMERA_FAILURE_THRESHOLD
    /\ frame = None

\* C7: when an external interrupt ends the loop, the cleanup of the finally
\* block attempts every teardown step of the backend, also after one raised.
C7_ShutdownAttemptsEveryStep ==
    (pc = "exited" /\ exc = "KeyboardInterrupt")
        => teardown_attempted = StepSet(teardown_kind)

\* C8: reinitialize_camera attempts every teardown step of the old backend
\* whichever of them raise, lets no teardown exception out, and goes on to
\* initialize_camera.
C8_ReinitAttemptsEveryStep ==
    [][(pc = "reinit" /\ exc' # "KeyboardInterrupt")
        => /\ pc' = "reinit_open"
           /\ exc' = "none"
           /\ teardown_kind' = camera_type
           /\ teardown_attempted' = StepSet(camera_type)]_vars

C8_Witness ==
    /\ pc = "reinit_open"
    /\ teardown_kind = "picamera2"
    /\ teardown_raised = {"stop"}
    /\ teardown_attempted = {"stop", "close"}

\* C9: a read of the status file by the consumer, at any moment, returns a
\* complete record (or finds no file yet), never an empty or truncated one.
C9_ReaderSeesCompleteRecord ==
    reader_saw \in {"absent", "complete"}

\* A step in which the running write_status call raises.
WriteRaiseStep ==
    /\ exc' # "KeyboardInterrupt"
    /\ \/ pc = "write_open" /\ pc' # "write_dump"
       \/ pc = "write_dump" /\ status_file' # pending

\* C10: a raise of open or of the serialization in write_status does not end
\* the loop and leaves the presence state as a successful write leaves it:
\* unchanged; the loop goes on to its next iteration.
C10_WriteFailureSwallowed ==
    [][/\ WriteRaiseStep
          => /\ pc' = ret
             /\ pc' \in {"loop", "sleep"}
             /\ exit_code' = -1
             /\ exc' = "none"
             /\ UNCHANGED presenceVars
       /\ (pc \in {"write_open", "write_dump"} /\ pc' # "exited")
          => UNCHANGED presenceVars]_vars

C10_Witness ==
    /\ pc = "sleep"
    /\ was_sleeping
    /\ ~is_sleeping
    /\ wrote
    /\ pending = build_status("Tony", TRUE, FALSE)
    /\ status_file = FilePartial
    /\ current_user = "Tony"

\* C11: initialize_camera returns the first backend, in the order picamera2,
\* picamera, opencv, that initializes; a backend that is absent or raises
\* (before or after creating its handle) is skipped; with none it returns
\* (None, None) and startup exits with code 1 before the initial write and
\* before any iteration.
C11_FirstBackendOrExit ==
    init_avail # NoAvail
        => LET oks == {i \in 1..Len(Backends) : init_avail[Backends[i]] = "ok"}
           IN  IF oks = {}
               THEN /\ camera = None
                    /\ camera_type = None
                    /\ pc = "exited"
                    /\ exit_code = 1
                    /\ ticks = 0
                    /\ status_file = FileAbsent
               ELSE /\ camera = "handle"
                    /\ camera_type = Backends[CHOOSE i \in oks : \A j \in oks : i <= j]
                    /\ pc \in {"write_open", "write_dump", "loop"}
                    /\ exit_code = -1

C11_Witness ==
    /\ pc = "loop"
    /\ init_avail = [k \in Kinds |-> CASE k = "picamera2" -> "late"
                                       [] k = "picamera" -> "absent"
                                       [] OTHER -> "ok"]
    /\ camera = "handle"
    /\ camera_type = "opencv"
    /\ status_file = build_status(Guest, FALSE, FALSE)

\* C12: when reinitialize_camera returns no camera the loop goes to the
\* back-off and does not exit; the back-off waits BACKOFF and makes the
\* second initialize_camera call of the iteration; the process exits (code
\* 1) exactly if that call returns no camera, and otherwise goes on with the
\* new camera and kind; every exit for camera loss inside the loop follows
\* that second call.
C12_BackoffThenOneRetry ==
    [][/\ (pc = "reinit_open" /\ exc' # "KeyboardInterrupt")
          => /\ pc' # "exited"
             /\ init_calls' = 1
             /\ camera' = None <=> pc' = "backoff"
       /\ (pc = "backoff" /\ exc' # "KeyboardInterrupt")
          => /\ init_calls' = 2
             /\ IF camera' = None
                THEN /\ pc' = "exited"
                     /\ exc' = "SystemExit"
                     /\ exit_code' = 1
                ELSE /\ pc' = "recognize"
                     /\ exit_code' = -1
                     /\ camera' = "handle"
                     /\ camera_type' \in Kinds
                     /\ elapsed' = elapsed + BACKOFF
       /\ (exc' = "SystemExit" /\ pc \notin {"start", "exited"})
          => /\ pc = "backoff"
             /\ init_calls' = 2]_vars

C12_Witness ==
    /\ pc = "recognize"
    /\ init_calls = 2
    /\ reinit_calls = 1
    /\ camera = "handle"
    /\ camera_type = "opencv"
    /\ camera_open
    /\ elapsed = REINIT_SETTLE + BACKOFF

\* C13: an iteration that starts asleep and whose observation is a match
\* with a loaded profile n calls write_status with user = n, isKnown = true,
\* sleeping = false, for every loaded profile name n.
C13_WakeByProfileIsKnown ==
    [][(ObservationStep /\ is_sleeping /\ face_detected' /\ matched')
        => /\ recognized_name' \in Profiles
           /\ wrote'
           /\ pc' = "write_open"
           /\ pending' = build_status(recognized_name', TRUE, FALSE)]_vars

\* C14: no error raised by the recognition library in recognize_face ends
\* the loop: a step from the recognition position that is not an external
\* interrupt leaves the process running with no exception in flight.
C14_RecognitionErrorContained ==
    [][(pc = "recognize" /\ exc' # "KeyboardInterrupt")
        => /\ pc' # "exited"
           /\ exc' = "none"
           /\ exit_code' = -1]_vars

\* C15: capture_frame makes at most retries + 1 reads, stops at the first
\* read that delivers a frame and returns it, returns None exactly when all
\* retries + 1 reads fail, and leaves the camera as it was: no teardown, no
\* initialization.
C15_CaptureBounded ==
    pc = "captured"
        => LET n == capture_log.retries + 1
               good == {i \in 1..n : read_outcomes[i] = "frame"}
           IN  /\ capture_log.attempts \in 1..n
               /\ frame # None <=> good # {}
               /\ good # {} => /\ capture_log.attempts \in good
                                /\ \A i \in good : capture_log.attempts <= i
               /\ good = {} => capture_log.attempts = n
               /\ camera = "handle"
               /\ camera_type \in Kinds
               /\ camera_open
               /\ teardown_attempted = {}
               /\ init_calls = 0
               /\ reinit_calls = 0

C15_Witness ==
    /\ pc = "captured"
    /\ camera_type = "opencv"
    /\ capture_log.retries = 2
    /\ read_outcomes = <<"nodata", "frame", "raise">>
    /\ capture_log.attempts = 2
    /\ frame = "frame"

\* C16: capture_frame pauses between every two consecutive reads and not
\* after the last: the number of pauses is the number of reads less one.
C16_PauseBetweenAttempts ==
    pc = "captured" => capture_log.pauses = capture_log.attempts - 1

\* C17: at no moment are two camera handles open, the calls of
\* initialize_camera included; camera is None exactly when camera_type is.
C17_OneOpenHandle ==
    /\ ~handle_overlap
    /\ camera = None <=> camera_type = None

\* C18: an iteration whose capture failed is processed as a no-face
\* observation: face_detected is false, last_face_seen is not set, an asleep
\* state stays asleep and publishes sleeping = true, and current_user does
\* not become "Guest".
C18_FailedCaptureIsNoFace ==
    [][(ObservationStep /\ frame = None)
        => /\ ~face_detected'
           /\ since_face' = since_face
           /\ idle' = idle
           /\ face_ever' = face_ever
           /\ is_sleeping => /\ is_sleeping'
                              /\ wrote'
                              /\ pending'.sleeping
           /\ current_user' \in {current_user, None}
           /\ current_user' = Guest => current_user = Guest]_vars

C18_Witness ==
    /\ pc = "sleep"
    /\ frame = None
    /\ recognized_name = Guest
    /\ ~face_detected
    /\ was_sleeping
    /\ is_sleeping
    /\ wrote
    /\ status_file = build_status(None, FALSE, TRUE)

\* The snapshot agrees with the presence state.
Agrees(snap) ==
    /\ snap.state = "complete"
    /\ snap.sleeping = is_sleeping
    /\ is_sleeping => (snap.user = None /\ ~snap.isKnown)
    /\ ~is_sleeping => snap.user = (IF current_user = None THEN Guest ELSE current_user)

\* After the initial write and at the end of every iteration.
EndOfTick == pc \in {"loop", "sleep"}

\* C19: at the end of every iteration, and after the initial write, the
\* snapshot given to the last write_status call agrees with the presence
\* state, also when the iteration made no call; and a write_status call that
\* does not raise leaves exactly that snapshot in the file.
C19_SnapshotAgreesWithState ==
    /\ [](EndOfTick => Agrees(pending))
    /\ [][(pc = "write_dump" /\ pc' = ret /\ status_file'.state = "complete")
           => (status_file' = pending /\ pending' = pending)]_vars

C19_Witness ==
    /\ pc = "sleep"
    /\ face_detected
    /\ ~wrote
    /\ current_user = "Sarah"
    /\ ~is_sleeping
    /\ pending = build_status("Sarah", TRUE, FALSE)
    /\ status_file = pending

\* C20: when an external interrupt ends the loop, the cleanup of the finally
\* block calls teardown steps only on a handle that is open, calls none when
\* camera is None, and, when no teardown step raises, leaves no handle open.
C20_CleanupMatchesOpenHandle ==
    (pc = "exited" /\ exc = "KeyboardInterrupt")
        => /\ teardown_attempted # {} => teardown_open
           /\ camera = None => teardown_attempted = {}
           /\ teardown_raised = {} => ~camera_open

====
